---- MODULE Spec2Model ----
(***************************************************************************)
(* The Eureka registry adapter of registrator: Register / Deregister /     *)
(* Refresh / Ping, the known-applications cache with its 90 second         *)
(* clearing, ghost reconciliation (findOldRegistration) and the            *)
(* per-instance health poller (checkHealthTick / checkHealth).             *)
(*                                                                         *)
(* Go values are modelled as follows.                                      *)
(*   *eureka.InstanceInfo   an index into the heap `instances`; Nil is the *)
(*                          nil pointer.                                   *)
(*   chan struct{}          a channel number; `closed` is the set of       *)
(*                          channels on which close() has been called.     *)
(*   instanceId             the tuple <<hostname, application, port>>,     *)
(*                          i.e. the three fields fmt.Sprintf joins.       *)
(*   statusUrl              the tuple <<ip, port, path>>; <<>> is "".      *)
(*   service.ID             the tuple of its ":"-separated parts.          *)
(* The registry client and the HTTP probe are the environment: each of     *)
(* their results is an input chosen by the action that makes the call.     *)
(* `last` is a history variable: what the latest step did (its calls to    *)
(* the registry, in order, its probes, its return value).                  *)
(***************************************************************************)
EXTENDS Integers, Sequences, FiniteSets, TLC

VARIABLES
    env,                 \* os.LookupEnv("PLP_HTTPD_SERVICE_NAME"): [found, value]
    registeredServices,  \* EurekaAdapter.registeredServices: instanceId -> RegisteredService
    knownApplications,   \* EurekaAdapter.knownApplications: name -> eureka.Application
    instances,           \* heap of InstanceInfo objects built by Register
    pollers,             \* one checkHealthTick goroutine per object that has a health check
    closed,              \* stop channels that have been closed
    panicked,            \* a Go panic (close of a closed channel) ended the process
    timers,              \* pending 90 second timers of Ping: seconds left, in creation order
    age,                 \* history: seconds since the cache entry of a name was inserted
    pings,               \* history: number of Ping calls that succeeded
    scheduled,           \* history: number of timers Ping has created
    clears,              \* history: number of cache clearings that ran
    accepted,            \* history: status the registry last accepted, by instanceId
    last                 \* history: what the latest step did

vars == <<env, registeredServices, knownApplications, instances, pollers, closed,
          panicked, timers, age, pings, scheduled, clears, accepted, last>>

----------------------------------------------------------------------------
(* Bounds of the model *)

MaxRegs == 1        \* instances built by Register (SpecLifecycle, SpecReconcile, ...)
MaxGhostRegs == 2   \* instances built by Register (SpecGhost, SpecStop)
MaxPings == 1       \* Ping calls that succeed
MaxInst == 2        \* instances per application in a GetApplications answer

(* Program constants *)

Nil == 0                  \* nil pointer, nil channel
ClearAfter == 90          \* time.NewTimer(90 * time.Second)
Clearing == 0 - 1         \* in `timers`: the goroutine is inside its loop
SkipPort == 51234         \* skipService
DefaultServiceName == "yoda-httpd"

(* Input universes *)

ServiceHosts == {"h1"}
CachedHosts == {"h1", "h2"}
ServiceIPs == {"ip1"}
CachedIPs == {"ip1", "ip2"}
CachedPorts == {1, 2}
AppNames == {"app", DefaultServiceName}
EnvValues == {[found |-> FALSE, value |-> ""], [found |-> TRUE, value |-> "app"]}
CheckPaths == {"", "/health"}
InitialStatuses == {"", "OUT_OF_SERVICE"}
DefaultInterval == 30     \* getCheckInterval
NoInterval == <<>>        \* check_interval absent: the empty string

(* Values of check_interval, as the characters of the string *)
CheckIntervals ==
    {NoInterval, <<"1", "5">>, <<"0">>, <<"-", "5">>, <<"+", "7">>, <<"x">>, <<"1", "x">>, <<"-">>}
TimeSteps == {45, 90}
RpcResults == {"nil", "err"}

Attributes == [check_http : CheckPaths, check_initial_status : InitialStatuses,
               check_interval : CheckIntervals]

(* Services that leave check_interval out *)
Services == [ID : {<<h, "c">> : h \in ServiceHosts}, Name : AppNames, IP : ServiceIPs,
             Port : CachedPorts \cup {SkipPort},
             Attrs : {a \in Attributes : a.check_interval = NoInterval}]

(* Outcome of one HTTP GET: a transport error, or a response with its status
   code whose body can ("200", "500") or cannot ("readfail200") be read. *)
GetOutcomes == {"error", "200", "500", "readfail200"}

----------------------------------------------------------------------------
(* Pure functions *)

Min(a, b) == IF a <= b THEN a ELSE b

SetMin(S) == CHOOSE x \in S : \A y \in S : x <= y

Range(s) == {s[i] : i \in 1..Len(s)}

SeqsUpTo(S, n) == UNION {[1..k -> S] : k \in 0..n}

getEnvironmentVariable(e, defaulValue) == IF ~e.found THEN defaulValue ELSE e.value

(* skipService with the reserved name fixed: the environment is not read. *)
skipServiceFixedName(service, e) ==
    service.Port = SkipPort /\ service.Name = DefaultServiceName

skipService(service, e) ==
    service.Port = SkipPort /\ service.Name = getEnvironmentVariable(e, DefaultServiceName)

InstanceIdOf(hostname, application, port) == <<hostname, application, port>>

instanceInformation(service) ==
    [InstanceId |-> InstanceIdOf(Head(service.ID), service.Name, service.Port),
     IpAddr |-> service.IP,
     App |-> service.Name,
     Port |-> service.Port,
     Status |-> "UP"]

NoInstance == [InstanceId |-> <<>>, IpAddr |-> "", App |-> "", Port |-> Nil, Status |-> ""]

StatusUrlOf(service) == <<service.IP, service.Port, service.Attrs.check_http>>

(* The outcomes of the GETs of one probe, in order: a second GET is made only
   after a first that failed. *)
ProbeRuns == {<<o>> : o \in GetOutcomes \ {"error"}} \cup {<<"error", o>> : o \in GetOutcomes}

(* What the first GET returns and what the second would return, for every
   pair of outcomes *)
GetPlans == {<<first, second>> : first \in GetOutcomes, second \in GetOutcomes}

(* The status probe counts a response whose body cannot be read as a response. *)
getCurrentStatusIgnoresBody(run) ==
    IF run[IF run[1] = "error" THEN 2 ELSE 1] \in {"200", "readfail200"} THEN "UP" ELSE "DOWN"

(* GetWithRetry: the response the caller sees and the number of GETs made. *)
GetWithRetry(run) ==
    IF run[1] = "error" THEN [resp |-> run[2], gets |-> 2]
    ELSE [resp |-> run[1], gets |-> 1]

getCurrentStatus(run) ==
    LET r == GetWithRetry(run).resp
    IN  IF r = "error" THEN "DOWN"
        ELSE IF r = "readfail200" THEN "DOWN"
        ELSE IF r = "200" THEN "UP"
        ELSE "DOWN"

(* strconv.Atoi on the characters of s: an optional sign, then one or more
   decimal digits; anything else is an error. *)
DigitValue(c) ==
    CASE c = "0" -> 0 [] c = "1" -> 1 [] c = "2" -> 2 [] c = "3" -> 3 [] c = "4" -> 4
      [] c = "5" -> 5 [] c = "6" -> 6 [] c = "7" -> 7 [] c = "8" -> 8 [] c = "9" -> 9
      [] OTHER -> -1

RECURSIVE DigitsValue(_, _, _)
DigitsValue(s, i, acc) ==
    IF i > Len(s) THEN acc
    ELSE IF DigitValue(s[i]) < 0 THEN -1
    ELSE DigitsValue(s, i + 1, 10 * acc + DigitValue(s[i]))

Atoi(s) ==
    LET signed == s # <<>> /\ s[1] \in {"+", "-"}
        digits == IF signed THEN Tail(s) ELSE s
        n == IF digits = <<>> THEN -1 ELSE DigitsValue(digits, 1, 0)
    IN  IF n < 0 THEN [err |-> TRUE, v |-> 0]
        ELSE [err |-> FALSE, v |-> IF signed /\ s[1] = "-" THEN 0 - n ELSE n]

getCheckInterval(service) ==
    IF service.Attrs.check_interval # NoInterval
    THEN IF Atoi(service.Attrs.check_interval).err THEN DefaultInterval
         ELSE Atoi(service.Attrs.check_interval).v
    ELSE DefaultInterval

(* time.NewTicker panics when the duration is not positive. *)
TickerPanics(interval) == interval <= 0

(* The loop of findOldRegistration over application.Instances, from index i. *)
RECURSIVE ScanInstances(_, _, _)
ScanInstances(list, i, registration) ==
    IF i > Len(list) THEN [found |-> FALSE, old |-> NoInstance, exactMatch |-> FALSE]
    ELSE IF list[i].InstanceId = registration.InstanceId
         THEN [found |-> TRUE, old |-> list[i], exactMatch |-> TRUE]
    ELSE IF list[i].IpAddr = registration.IpAddr
         THEN [found |-> TRUE, old |-> list[i],
               exactMatch |-> (list[i].Port = registration.Port)]
    ELSE ScanInstances(list, i + 1, registration)

findOldRegistration(cache, registration) ==
    IF registration.App \in DOMAIN cache
    THEN ScanInstances(cache[registration.App].Instances, 1, registration)
    ELSE [found |-> FALSE, old |-> NoInstance, exactMatch |-> FALSE]

----------------------------------------------------------------------------
(* Map helpers *)

EmptyMap == <<>>

MapPut(m, k, v) == (k :> v) @@ m

MapDelete(m, k) == [x \in DOMAIN m \ {k} |-> m[x]]

ZeroRegisteredService == [registration |-> Nil, statusUrl |-> <<>>, stop |-> Nil, ticker |-> Nil]

MapGet(m, k) == IF k \in DOMAIN m THEN m[k] ELSE ZeroRegisteredService

(* Every service is taken to have a health check. *)
HasHealthCheckAlways(service) == TRUE

(* Line 210: the check_http attribute is not empty. *)
HasHealthCheck(service) == service.Attrs.check_http # ""

(* Lines 251-253: check_initial_status overrides the computed status. *)
InitialStatus(service, computed) ==
    IF service.Attrs.check_initial_status # "" THEN service.Attrs.check_initial_status
    ELSE computed

(* No old registration is taken to be managed. *)
IsExistingNever(regs, instanceId) == FALSE

(* Line 219: is the old registration one this adapter manages? *)
IsExisting(regs, instanceId) == instanceId \in DOMAIN regs

(* Every probe is taken as a change of status. *)
AlwaysChanged(currentStatus, newStatus) == TRUE

(* Line 166 of checkHealth. *)
StatusChanged(currentStatus, newStatus) == currentStatus # newStatus

(* RegisterInstance follows every heartbeat. *)
NeedsRegisterAlways(succeeded) == TRUE

(* Line 295 of Refresh. *)
NeedsRegister(succeeded) == ~succeeded

(* The entry is left in the map. *)
KeepEntry(regs, instanceId) == regs

(* Line 284 of Deregister. *)
DeleteEntry(regs, instanceId) == MapDelete(regs, instanceId)

(* Lines 76-78 of Ping, from index i of the answer. *)
RECURSIVE MergeApplications(_, _, _)
MergeApplications(cache, applications, i) ==
    IF i > Len(applications) THEN cache
    ELSE MergeApplications(MapPut(cache, applications[i].Name, applications[i]),
                           applications, i + 1)

(* Line 82 of Ping: one more timer, 90 seconds from now. *)
ScheduleClear(pending) == Append(pending, ClearAfter)

(* The goroutine deletes nothing. *)
ClearedCacheKeepsAll(cache) == cache

(* Lines 85-87 of Ping's goroutine. *)
ClearedCache(cache) == [k \in (DOMAIN cache) \ (DOMAIN cache) |-> cache[k]]

----------------------------------------------------------------------------
(* Inputs from the registry *)

(* The instances the registry may report for application "app": those of the
   host of the services on either port, and those of another host on port 1,
   at the address of the services and at another address. *)
CachedInstance(h, ip, p) ==
    [InstanceId |-> InstanceIdOf(h, "app", p), IpAddr |-> ip, App |-> "app", Port |-> p,
     Status |-> "UP"]

CachedInstances ==
    {CachedInstance(h, ip, p) : h \in ServiceHosts, ip \in ServiceIPs, p \in CachedPorts}
    \cup {CachedInstance(h, ip, 1) : h \in CachedHosts \ ServiceHosts, ip \in CachedIPs}

(* What GetApplications returns: an error, or a list of applications. *)
PingAnswers ==
    {[err |-> TRUE, Applications |-> <<>>], [err |-> FALSE, Applications |-> <<>>]}
    \cup {[err |-> FALSE, Applications |-> <<[Name |-> "app", Instances |-> l]>>] :
             l \in SeqsUpTo(CachedInstances, MaxInst)}

----------------------------------------------------------------------------
(* The history record of a step *)

NoService == [ID |-> <<>>, Name |-> "", IP |-> "", Port |-> Nil,
              Attrs |-> [check_http |-> "", check_initial_status |-> "",
                         check_interval |-> NoInterval]]

(* No GET is made *)
NoRun == <<>>

Idle ==
    [op |-> "none",          \* the operation of the step
     svc |-> NoService,      \* its service argument
     skipped |-> FALSE,      \* skipService held
     consulted |-> FALSE,    \* findOldRegistration was called
     found |-> FALSE,        \* ... and returned an old registration
     exactMatch |-> FALSE,   \* ... as an exact match
     old |-> NoInstance,     \* ... namely this one
     existing |-> FALSE,     \* the old registration's id is in the managed map
     probes |-> 0,           \* calls of getCurrentStatus
     probed |-> "",          \* result of getCurrentStatus
     run |-> NoRun,          \* what its first and its second GET return, if made
     gets |-> 0,             \* the number of GETs it made
     computed |-> "",        \* Register: status before check_initial_status
     interval |-> 0,         \* Register: result of getCheckInterval
     cur |-> "",             \* checkHealth: currentStatus
     obj |-> Nil,            \* the InstanceInfo the step built or worked on
     spawned |-> Nil,        \* the poller goroutine the step started
     fired |-> 0,            \* close(stop) calls
     calls |-> <<>>,         \* registry calls, in order
     ret |-> ""]             \* "nil" or "err" returned to the caller

Call(rpc, obj, info, result) ==
    [rpc |-> rpc, obj |-> obj, id |-> info.InstanceId, status |-> info.Status,
     result |-> result]

----------------------------------------------------------------------------
(* The state after Factory.New *)

NotRecorded == [on |-> FALSE, status |-> EmptyMap]
Recorded == [on |-> TRUE, status |-> EmptyMap]

Init ==
    /\ env \in EnvValues
    /\ registeredServices = EmptyMap
    /\ knownApplications = EmptyMap
    /\ instances = <<>>
    /\ pollers = EmptyMap
    /\ closed = {}
    /\ panicked = FALSE
    /\ timers = <<>>
    /\ age = EmptyMap
    /\ pings = 0
    /\ scheduled = 0
    /\ clears = 0
    /\ accepted \in {NotRecorded, Recorded}
    /\ last = Idle

----------------------------------------------------------------------------
(* EurekaAdapter.Ping *)

Ping(answer) ==
    /\ ~panicked
    /\ IF answer.err
       THEN /\ last' = [Idle EXCEPT !.op = "Ping", !.ret = "err",
                                    !.calls = <<Call("GetApplications", Nil, NoInstance, "err")>>]
            /\ UNCHANGED <<knownApplications, timers, age, pings, scheduled>>
       ELSE /\ knownApplications' = MergeApplications(knownApplications, answer.Applications, 1)
            /\ age' = [n \in DOMAIN knownApplications' |->
                          IF n \in {answer.Applications[i].Name : i \in 1..Len(answer.Applications)}
                          THEN 0 ELSE age[n]]
            /\ timers' = ScheduleClear(timers)
            /\ pings' = pings + 1
            /\ scheduled' = scheduled + (Len(timers') - Len(timers))
            /\ last' = [Idle EXCEPT !.op = "Ping", !.ret = "nil",
                                    !.calls = <<Call("GetApplications", Nil, NoInstance, "nil")>>]
    /\ UNCHANGED <<env, registeredServices, instances, pollers, closed, panicked, clears,
                   accepted>>

(* The goroutine of Ping takes <-timer.C and enters its loop over the map. It
   takes no lock: the adapter has none. *)
ClearBegin ==
    /\ ~panicked
    /\ \E i \in 1..Len(timers) : timers[i] = 0
    /\ LET i == SetMin({j \in 1..Len(timers) : timers[j] = 0})
       IN  timers' = [timers EXCEPT ![i] = Clearing]
    /\ last' = [Idle EXCEPT !.op = "range"]
    /\ UNCHANGED <<env, registeredServices, knownApplications, instances, pollers, closed,
                   panicked, age, pings, scheduled, clears, accepted>>

(* The goroutine of Ping deletes every key and returns. *)
ClearCache ==
    /\ ~panicked
    /\ \E i \in 1..Len(timers) : timers[i] = Clearing
    /\ LET i == SetMin({j \in 1..Len(timers) : timers[j] = Clearing})
       IN  timers' = SubSeq(timers, 1, i - 1) \o SubSeq(timers, i + 1, Len(timers))
    /\ knownApplications' = ClearedCache(knownApplications)
    /\ age' = [n \in DOMAIN knownApplications' |-> age[n]]
    /\ clears' = clears + 1
    /\ last' = [Idle EXCEPT !.op = "clear"]
    /\ UNCHANGED <<env, registeredServices, instances, pollers, closed, panicked, pings,
                   scheduled, accepted>>

(* A handler reads or writes the map while a goroutine of Ping is inside its
   loop: besides the results of either order, which the interleaving of the
   handler's step gives, the Go runtime may end the process ("concurrent map
   read and map write", "concurrent map writes"). *)
CacheFault ==
    /\ ~panicked
    /\ \E i \in 1..Len(timers) : timers[i] = Clearing
    /\ panicked' = TRUE
    /\ last' = [Idle EXCEPT !.op = "fault", !.ret = "panic"]
    /\ UNCHANGED <<env, registeredServices, knownApplications, instances, pollers, closed,
                   timers, age, pings, scheduled, clears, accepted>>

(* Time passes: d seconds, or less when a timer expires sooner. A timer that has
   expired runs its goroutine before more time passes. Ages stop growing at
   twice the clearing window. *)
Advance(d) ==
    /\ ~panicked
    /\ timers # <<>> \/ DOMAIN knownApplications # {}
    /\ \A i \in 1..Len(timers) : timers[i] > 0
    /\ LET step == IF timers = <<>> THEN d ELSE Min(d, SetMin(Range(timers)))
       IN  /\ timers' = [i \in 1..Len(timers) |-> timers[i] - step]
           /\ age' = [n \in DOMAIN age |-> Min(age[n] + step, 2 * ClearAfter)]
    /\ last' = [Idle EXCEPT !.op = "advance"]
    /\ UNCHANGED <<env, registeredServices, knownApplications, instances, pollers, closed,
                   panicked, pings, scheduled, clears, accepted>>

----------------------------------------------------------------------------
(* EurekaAdapter.Register. run: the outcomes of the GETs of the
   synchronous probe; ghostRet, regRet: what UnregisterInstance of a ghost and
   RegisterInstance return. *)

NewPoller(obj, statusUrl, interval) ==
    [registration |-> obj, statusUrl |-> statusUrl, stop |-> obj, ticker |-> obj,
     interval |-> interval, pc |-> "select", currentStatus |-> ""]

(* The failure of UnregisterInstance of a ghost is returned. *)
RegisterResultGhostFirst(ghostRet, regRet) == IF ghostRet = "err" THEN ghostRet ELSE regRet

(* Line 223 and line 255: the result of UnregisterInstance of a ghost is
   dropped, the result of RegisterInstance is returned. *)
RegisterResult(ghostRet, regRet) == regRet

(* What the registry holds of this adapter's instances after RegisterInstance
   of info, and after UnregisterInstance of id, that returned result: a call
   that failed changes nothing. The history is kept by the specifications
   that read it (acc.on). *)
RegistryAccepts(acc, info, result) ==
    IF acc.on /\ result = "nil"
    THEN [acc EXCEPT !.status = MapPut(acc.status, info.InstanceId, info.Status)]
    ELSE acc

RegistryForgets(acc, id, result) ==
    IF acc.on /\ result = "nil"
    THEN [acc EXCEPT !.status = MapDelete(acc.status, id)]
    ELSE acc

Register(service, run, ghostRet, regRet) ==
    /\ ~panicked
    /\ IF skipService(service, env)
       THEN /\ last' = [Idle EXCEPT !.op = "Register", !.svc = service, !.skipped = TRUE,
                                    !.ret = "nil"]
            /\ UNCHANGED <<registeredServices, instances, pollers, panicked, accepted>>
       ELSE LET registration == instanceInformation(service)
                obj == Len(instances) + 1
                check == HasHealthCheck(service)
                statusUrl == StatusUrlOf(service)
                r == IF check THEN findOldRegistration(knownApplications, registration)
                     ELSE [found |-> FALSE, old |-> NoInstance, exactMatch |-> FALSE]
                ghost == check /\ r.found /\ ~r.exactMatch
                existing == ghost /\ IsExisting(registeredServices, r.old.InstanceId)
                probe == check /\ r.found /\ r.exactMatch
                computed == IF ~check THEN "UP"
                            ELSE IF probe THEN getCurrentStatus(run)
                            ELSE "STARTING"
                interval == IF check THEN getCheckInterval(service) ELSE 0
                registeredService ==
                    IF check
                    THEN [registration |-> obj, statusUrl |-> statusUrl, stop |-> obj,
                          ticker |-> obj]
                    ELSE [ZeroRegisteredService EXCEPT !.registration = obj]
                stored == [registration EXCEPT !.Status = InitialStatus(service, computed)]
                ghostCalls == IF ghost /\ ~existing
                              THEN <<Call("UnregisterInstance", Nil, r.old, ghostRet)>>
                              ELSE <<>>
                cleaned == IF ghost /\ ~existing
                           THEN RegistryForgets(accepted, r.old.InstanceId, ghostRet)
                           ELSE accepted
                reconciled == [Idle EXCEPT
                       !.op = "Register", !.svc = service, !.consulted = check,
                       !.found = r.found, !.exactMatch = r.exactMatch, !.old = r.old,
                       !.existing = existing,
                       !.probes = IF probe THEN 1 ELSE 0,
                       !.probed = IF probe THEN computed ELSE "",
                       !.run = IF probe THEN run ELSE NoRun,
                       !.gets = IF probe THEN GetWithRetry(run).gets ELSE 0,
                       !.computed = computed, !.interval = interval]
            IN  IF check /\ TickerPanics(interval)
                THEN /\ panicked' = TRUE
                     /\ last' = [reconciled EXCEPT !.calls = ghostCalls, !.ret = "panic"]
                     /\ accepted' = cleaned
                     /\ UNCHANGED <<registeredServices, instances, pollers>>
                ELSE /\ instances' = Append(instances, stored)
                     /\ pollers' = IF check
                                   THEN MapPut(pollers, obj, NewPoller(obj, statusUrl, interval))
                                   ELSE pollers
                     /\ registeredServices' =
                            MapPut(registeredServices, registration.InstanceId,
                                   registeredService)
                     /\ accepted' = RegistryAccepts(cleaned, stored, regRet)
                     /\ last' = [reconciled EXCEPT
                            !.obj = obj,
                            !.spawned = IF check THEN obj ELSE Nil,
                            !.calls = ghostCalls
                                      \o <<Call("RegisterInstance", obj, stored, regRet)>>,
                            !.ret = RegisterResult(ghostRet, regRet)]
                     /\ UNCHANGED panicked
    /\ UNCHANGED <<env, knownApplications, closed, timers, age, pings, scheduled, clears>>

(* EurekaAdapter.Deregister. close() of a closed channel panics. *)
Deregister(service, ret) ==
    /\ ~panicked
    /\ IF skipService(service, env)
       THEN /\ last' = [Idle EXCEPT !.op = "Deregister", !.svc = service, !.skipped = TRUE,
                                    !.ret = "nil"]
            /\ UNCHANGED <<registeredServices, closed, panicked, accepted>>
       ELSE LET registration == instanceInformation(service)
                registeredService == MapGet(registeredServices, registration.InstanceId)
                fire == registeredService.stop # Nil
            IN  IF fire /\ registeredService.stop \in closed
                THEN /\ panicked' = TRUE
                     /\ last' = [Idle EXCEPT !.op = "Deregister", !.svc = service,
                                             !.fired = 1, !.ret = "panic"]
                     /\ UNCHANGED <<registeredServices, closed, accepted>>
                ELSE /\ closed' = IF fire THEN closed \cup {registeredService.stop} ELSE closed
                     /\ registeredServices' =
                            DeleteEntry(registeredServices, registration.InstanceId)
                     /\ last' = [Idle EXCEPT !.op = "Deregister", !.svc = service,
                            !.obj = registeredService.registration,
                            !.fired = IF fire THEN 1 ELSE 0,
                            !.calls = <<Call("UnregisterInstance", Nil, registration, ret)>>,
                            !.ret = ret]
                     /\ accepted' = RegistryForgets(accepted, registration.InstanceId, ret)
                     /\ UNCHANGED panicked
    /\ UNCHANGED <<env, knownApplications, instances, pollers, timers, age, pings, scheduled,
                   clears>>

(* EurekaAdapter.Refresh. succeeded: what SendHeartbeat returns. The instance
   passed to the registry is the managed entry's registration, nil when the
   map has no entry. *)
InstanceAt(heap, obj) == IF obj = Nil THEN NoInstance ELSE heap[obj]

Refresh(service, succeeded, regRet) ==
    /\ ~panicked
    /\ IF skipService(service, env)
       THEN /\ last' = [Idle EXCEPT !.op = "Refresh", !.svc = service, !.skipped = TRUE,
                                    !.ret = "nil"]
            /\ UNCHANGED accepted
       ELSE LET registration == instanceInformation(service)
                registeredService == MapGet(registeredServices, registration.InstanceId)
                obj == registeredService.registration
                info == InstanceAt(instances, obj)
                heartbeat == Call("SendHeartbeat", obj, info,
                                  IF succeeded THEN "true" ELSE "false")
            IN  /\ last' = [Idle EXCEPT !.op = "Refresh", !.svc = service, !.obj = obj,
                        !.calls = IF NeedsRegister(succeeded)
                                  THEN <<heartbeat,
                                         Call("RegisterInstance", obj, info, regRet)>>
                                  ELSE <<heartbeat>>,
                        !.ret = IF NeedsRegister(succeeded) THEN regRet ELSE "nil"]
                /\ accepted' = IF NeedsRegister(succeeded) /\ obj # Nil
                               THEN RegistryAccepts(accepted, info, regRet)
                               ELSE accepted
    /\ UNCHANGED <<env, registeredServices, knownApplications, instances, pollers, closed,
                   panicked, timers, age, pings, scheduled, clears>>

----------------------------------------------------------------------------
(* The poller goroutine checkHealthTick of object k *)

(* The stop case of select is never ready. *)
StopNeverSeen(stop, closedChannels) == FALSE

(* Line 177: a receive from a closed channel is ready. *)
StopSignalled(stop, closedChannels) == stop \in closedChannels

(* select takes the ticker case; checkHealth reads the recorded status. *)
TickStart(k) ==
    /\ ~panicked
    /\ k \in DOMAIN pollers
    /\ pollers[k].pc = "select"
    /\ pollers' = [pollers EXCEPT ![k].pc = "checking",
                                  ![k].currentStatus = instances[pollers[k].registration].Status]
    /\ last' = [Idle EXCEPT !.op = "tick", !.obj = pollers[k].registration,
                            !.cur = pollers'[k].currentStatus]
    /\ UNCHANGED <<env, registeredServices, knownApplications, instances, closed, panicked,
                   timers, age, pings, scheduled, clears, accepted>>

(* The rest of checkHealth: the probe, the comparison, the re-announcement. *)
TickFinish(k, run, regRet) ==
    /\ ~panicked
    /\ k \in DOMAIN pollers
    /\ pollers[k].pc = "checking"
    /\ LET obj == pollers[k].registration
           currentStatus == pollers[k].currentStatus
           newStatus == getCurrentStatus(run)
           changed == StatusChanged(currentStatus, newStatus)
       IN  /\ instances' = IF changed THEN [instances EXCEPT ![obj].Status = newStatus]
                           ELSE instances
           /\ last' = [Idle EXCEPT !.op = "checkHealth", !.obj = obj, !.cur = currentStatus,
                  !.probes = 1,
                  !.probed = newStatus,
                  !.run = run,
                  !.gets = GetWithRetry(run).gets,
                  !.calls = IF changed
                            THEN <<Call("RegisterInstance", obj, instances'[obj], regRet)>>
                            ELSE <<>>]
           /\ accepted' = IF changed THEN RegistryAccepts(accepted, instances'[obj], regRet)
                          ELSE accepted
    /\ pollers' = [pollers EXCEPT ![k].pc = "select", ![k].currentStatus = ""]
    /\ UNCHANGED <<env, registeredServices, knownApplications, closed, panicked, timers, age,
                   pings, scheduled, clears>>

(* select takes the stop case: the ticker is stopped and the goroutine returns. *)
PollerStop(k) ==
    /\ ~panicked
    /\ k \in DOMAIN pollers
    /\ pollers[k].pc = "select"
    /\ StopSignalled(pollers[k].stop, closed)
    /\ pollers' = [pollers EXCEPT ![k].pc = "done", ![k].ticker = Nil]
    /\ last' = [Idle EXCEPT !.op = "stop", !.obj = pollers[k].registration]
    /\ UNCHANGED <<env, registeredServices, knownApplications, instances, closed, panicked,
                   timers, age, pings, scheduled, clears, accepted>>

----------------------------------------------------------------------------
(* The inputs a step needs: an environment result is chosen only for a call
   the step makes. *)

Reconciled(service) ==
    IF HasHealthCheck(service)
    THEN findOldRegistration(knownApplications, instanceInformation(service))
    ELSE [found |-> FALSE, old |-> NoInstance, exactMatch |-> FALSE]

(* One run of the probe for each status it can return *)
StatusRuns == {<<"200">>, <<"500">>}

RegisterRuns(service, R) ==
    IF ~skipService(service, env) /\ Reconciled(service).found
       /\ Reconciled(service).exactMatch
    THEN R ELSE {NoRun}

GhostResults(service) ==
    IF ~skipService(service, env) /\ Reconciled(service).found
       /\ ~Reconciled(service).exactMatch
       /\ ~IsExisting(registeredServices, Reconciled(service).old.InstanceId)
    THEN RpcResults ELSE {"nil"}

CallResults(service) == IF skipService(service, env) THEN {"nil"} ELSE RpcResults

(* Deregister and Refresh read the ID, the name and the port of a service. *)
KeyServices == {s \in Services : s.Attrs = NoService.Attrs}

(* Register of a service of S with a probe run of R, while fewer than n
   instances have been built *)
RegisterStep(S, R, n) ==
    \E service \in S :
        /\ skipService(service, env) \/ Len(instances) < n
        /\ \E run \in RegisterRuns(service, R), ghostRet \in GhostResults(service),
              regRet \in CallResults(service) :
               Register(service, run, ghostRet, regRet)

DeregisterStep(S) ==
    \E service \in S : \E ret \in CallResults(service) : Deregister(service, ret)

RefreshStep(S) ==
    \E service \in S : \E succeeded \in BOOLEAN :
        \E regRet \in (IF succeeded THEN {"nil"} ELSE CallResults(service)) :
            Refresh(service, succeeded, regRet)

(* Ping with an answer of A, while fewer than n Pings have succeeded *)
PingStep(A, n) == pings < n /\ \E answer \in A : Ping(answer)

TimeStep == ClearBegin \/ ClearCache \/ CacheFault \/ \E d \in TimeSteps : Advance(d)

(* The rest of a tick of poller k, with a probe run of R *)
PollerFinish(k, R) ==
    \E run \in R :
        \E regRet \in (IF k \in DOMAIN pollers
                          /\ StatusChanged(pollers[k].currentStatus, getCurrentStatus(run))
                       THEN RpcResults ELSE {"nil"}) :
            TickFinish(k, run, regRet)

PollerStep(R) ==
    \E k \in DOMAIN pollers :
        \/ TickStart(k)
        \/ PollerFinish(k, R)
        \/ PollerStop(k)

(* Services of application "app" on port 1 with every value of check_interval *)
IntervalServices ==
    [ID : {<<h, "c">> : h \in ServiceHosts}, Name : {"app"}, IP : ServiceIPs, Port : {1},
     Attrs : {a \in Attributes : a.check_initial_status = ""}]

(* The adapter with every operation and every input *)
Next ==
    \/ PingStep(PingAnswers, MaxPings)
    \/ TimeStep
    \/ RegisterStep(Services \cup IntervalServices, ProbeRuns, MaxGhostRegs)
    \/ DeregisterStep(KeyServices)
    \/ RefreshStep(KeyServices)
    \/ PollerStep(ProbeRuns)

Spec == Init /\ [][Next]_vars

(* The adapter between Pings: registrations, heartbeats and pollers with the
   known-applications cache empty, for services on port 1 and on the skip
   port. *)
LifecycleServices == {s \in Services : s.Port \in {1, SkipPort}}

NextLifecycle ==
    \/ RegisterStep(LifecycleServices, StatusRuns, MaxRegs)
    \/ DeregisterStep(LifecycleServices \cap KeyServices)
    \/ RefreshStep(LifecycleServices \cap KeyServices)
    \/ PollerStep(StatusRuns)

(* The adapter after New, the registry's view not recorded. *)
InitNotRecorded == Init /\ accepted = NotRecorded

SpecLifecycle == InitNotRecorded /\ [][NextLifecycle]_vars

(* Reconciliation: Ping, the clearing of the cache and Register of the
   services of application "app", PLP_HTTPD_SERVICE_NAME not set. *)
InitDefaultEnv == Init /\ ~env.found /\ accepted = NotRecorded

ReconcileServices ==
    {s \in Services : s.Name = "app" /\ s.Port # SkipPort /\ s.Attrs.check_initial_status = ""}

NextReconcile ==
    \/ PingStep(PingAnswers, MaxPings)
    \/ TimeStep
    \/ RegisterStep(ReconcileServices, StatusRuns, MaxRegs)

SpecReconcile == InitDefaultEnv /\ [][NextReconcile]_vars

(* Reconciliation against the managed-instance map: Ping and Register of the
   services of ReconcileServices that have a health check, with room for the
   instance of a ghost and the instance that replaces it. *)
GhostServices == {s \in ReconcileServices : HasHealthCheck(s)}

NextGhost ==
    \/ PingStep(PingAnswers, MaxPings)
    \/ RegisterStep(GhostServices, StatusRuns, MaxGhostRegs)

SpecGhost == InitDefaultEnv /\ [][NextGhost]_vars

(* The tick interval: Register of the services of IntervalServices, and their
   pollers. *)
NextInterval ==
    \/ RegisterStep(IntervalServices, StatusRuns, MaxRegs)
    \/ PollerStep(StatusRuns)

SpecInterval == InitNotRecorded /\ [][NextInterval]_vars

(* The status probe with every run of its GETs: the synchronous probe of
   Register after a Ping that reported the instance, and the probes of its
   poller. *)
ProbeServices == {s \in GhostServices : s.Port = 1}

ProbeAnswers ==
    {[err |-> FALSE,
      Applications |-> <<[Name |-> "app", Instances |-> <<CachedInstance(h, ip, 1)>>]>>] :
        h \in ServiceHosts, ip \in ServiceIPs}

NextProbe ==
    \/ PingStep(ProbeAnswers, MaxPings)
    \/ RegisterStep(ProbeServices, GetPlans, MaxRegs)
    \/ PollerStep(GetPlans)

SpecProbe == InitDefaultEnv /\ [][NextProbe]_vars

(* The end of a poller: Register and Deregister of the services of
   ProbeServices and their pollers. The Go scheduler runs a goroutine that can
   run, so a tick that began finishes when its probe returns (WF); select
   chooses at random among its ready cases, so a stop signal that is ready at
   every select is taken at one of them (SF). *)
NextStop ==
    \/ RegisterStep(ProbeServices, StatusRuns, MaxGhostRegs)
    \/ DeregisterStep({s \in KeyServices : s.Name = "app" /\ s.Port = 1})
    \/ PollerStep(StatusRuns)

PollerFairness ==
    \A k \in 1..MaxGhostRegs :
        WF_vars(PollerFinish(k, StatusRuns)) /\ SF_vars(PollerStop(k))

SpecStop == InitDefaultEnv /\ [][NextStop]_vars /\ PollerFairness

(* What the registry holds: Register, Refresh and Deregister of the services
   of ProbeServices and their pollers, with the registry's view recorded. *)
NextAnnounce ==
    \/ RegisterStep(ProbeServices, StatusRuns, MaxRegs)
    \/ RefreshStep({s \in KeyServices : s.Name = "app" /\ s.Port = 1})
    \/ DeregisterStep({s \in KeyServices : s.Name = "app" /\ s.Port = 1})
    \/ PollerStep(StatusRuns)

InitRecorded == Init /\ ~env.found /\ accepted = Recorded

SpecAnnounce == InitRecorded /\ [][NextAnnounce]_vars

----------------------------------------------------------------------------
(* What the claims read from the latest step *)

RegisteredWithCheck ==
    last.op = "Register" /\ ~last.skipped /\ last.svc.Attrs.check_http # ""

NewRegistration == instanceInformation(last.svc)

(* The cached instance list Register searched: Register leaves the cache as
   it found it. *)
CachedList ==
    IF NewRegistration.App \in DOMAIN knownApplications
    THEN knownApplications[NewRegistration.App].Instances
    ELSE <<>>

SameIdCached == \E i \in 1..Len(CachedList) : CachedList[i].InstanceId = NewRegistration.InstanceId

GhostOf(a) == a.IpAddr = NewRegistration.IpAddr /\ a.Port # NewRegistration.Port

CallsOf(rpc) == {i \in 1..Len(last.calls) : last.calls[i].rpc = rpc}

UnregisteredByLast(a) ==
    \E i \in CallsOf("UnregisterInstance") : last.calls[i].id = a.InstanceId

(* Register does not add or remove the entry of an instance on another port,
   so membership after the step is membership at the moment of the check. *)
ManagedAtCheck(a) == a.InstanceId \in DOMAIN registeredServices

----------------------------------------------------------------------------
(* C1. Ghost reconciliation, as claimed: when the cache holds, under the new
   descriptor's application, an instance A with the same IP address and a
   different port, and no instance with the new instanceId, then Register
   calls UnregisterInstance(A) iff the managed map has no entry for A's
   instanceId, and the computed status is STARTING. *)
C1_AnyGhostUnregistered ==
    (RegisteredWithCheck /\ ~SameIdCached) =>
        \A i \in 1..Len(CachedList) :
            GhostOf(CachedList[i]) =>
                /\ UnregisteredByLast(CachedList[i]) <=> ~ManagedAtCheck(CachedList[i])
                /\ last.computed = "STARTING"

(* C1, amended: the same, for the instance A that is the first one of the
   cached list with the same IP address. At most one UnregisterInstance call
   is made, and it is made before RegisterInstance. *)
C1_FirstGhostUnregistered ==
    (RegisteredWithCheck /\ ~SameIdCached) =>
        \A i \in 1..Len(CachedList) :
            (/\ GhostOf(CachedList[i])
             /\ \A j \in 1..(i - 1) : CachedList[j].IpAddr # NewRegistration.IpAddr) =>
                /\ UnregisteredByLast(CachedList[i]) <=> ~ManagedAtCheck(CachedList[i])
                /\ last.computed = "STARTING"
                /\ CallsOf("UnregisterInstance") \subseteq {1}
                /\ last.calls[Len(last.calls)].rpc = "RegisterInstance"

(* C1 witness: a ghost on another port that this adapter manages is found behind
   an instance at another address, and is left registered. *)
C1_Witness ==
    /\ RegisteredWithCheck /\ ~SameIdCached
    /\ Len(CachedList) = 2
    /\ CachedList[1].IpAddr # NewRegistration.IpAddr
    /\ GhostOf(CachedList[2])
    /\ ManagedAtCheck(CachedList[2])
    /\ CallsOf("UnregisterInstance") = {}
    /\ last.computed = "STARTING"

(* C2. Exact-match reconciliation, as claimed: when the cache holds an instance
   with the instanceId of the new descriptor, the status passed to
   RegisterInstance is the result of the synchronous probe (UP or DOWN, never
   STARTING) and no UnregisterInstance call is made. *)
C2_SameIdIsProbed ==
    (RegisteredWithCheck /\ SameIdCached) =>
        /\ last.probes = 1
        /\ last.probed \in {"UP", "DOWN"}
        /\ last.calls = <<Call("RegisterInstance", last.obj,
                                [NewRegistration EXCEPT !.Status = last.probed],
                                last.ret)>>

(* C3. Precedence of reconciliation, as claimed: exact match whenever some
   cached instance has the same instanceId, whatever the order of the list;
   ghost candidate only when none has it and some cached instance has the same
   IP address and a different port. *)
C3_InstanceIdFirst ==
    RegisteredWithCheck =>
        /\ SameIdCached => (last.found /\ last.exactMatch)
        /\ (last.found /\ ~last.exactMatch) =>
               (~SameIdCached /\ \E i \in 1..Len(CachedList) : GhostOf(CachedList[i]))

(* C4. Same instance, as claimed: the old registration is an exact match only
   if its instanceId is the new descriptor's; when no cached instance has that
   instanceId the new instance is marked STARTING and is not probed. *)
C4_ExactOnlyBySameId ==
    RegisteredWithCheck =>
        /\ (last.found /\ last.exactMatch) => last.old.InstanceId = NewRegistration.InstanceId
        /\ ~SameIdCached => (last.computed = "STARTING" /\ last.probes = 0)

(* C5. The 90 second window: every successful Ping creates exactly one timer of
   90 seconds, each timer clears the cache once, no cached entry is older than
   90 seconds, the cache is empty when no timer is pending, and a Register
   that finds no entry for its application finds no old registration, makes
   no probe and computes STARTING. *)
C5_CacheClearedAfterWindow ==
    /\ scheduled = pings
    /\ Len(timers) + clears = scheduled
    /\ \A i \in 1..Len(timers) : timers[i] <= ClearAfter
    /\ \A n \in DOMAIN knownApplications : age[n] <= ClearAfter
    /\ timers = <<>> => DOMAIN knownApplications = {}
    /\ (last.op = "Ping" /\ last.ret = "nil") =>
           (timers # <<>> /\ timers[Len(timers)] = ClearAfter)
    /\ (RegisteredWithCheck /\ NewRegistration.App \notin DOMAIN knownApplications) =>
           (~last.found /\ last.probes = 0 /\ last.computed = "STARTING"
            /\ CallsOf("UnregisterInstance") = {})

(* C5 witness: a Register with a health check that runs after the only timer
   has cleared the cache. *)
C5_Witness ==
    /\ RegisteredWithCheck
    /\ pings = 1 /\ clears = 1 /\ timers = <<>>
    /\ DOMAIN knownApplications = {}
    /\ last.computed = "STARTING"

(* A step of the rest of checkHealth of poller k *)
IsTickFinish(k) ==
    /\ k \in DOMAIN pollers
    /\ pollers[k].pc = "checking"
    /\ pollers'[k].pc = "select"

(* C6. A poller tick calls RegisterInstance iff the probed status differs from
   the status recorded when the tick began; then the recorded status is the
   probed status and the call carries it; otherwise the tick makes no registry
   call and changes neither the instances, nor the managed map, nor the cache. *)
C6_PollerAnnouncesChangesOnly ==
    [][\A k \in DOMAIN pollers : IsTickFinish(k) =>
          LET obj == pollers[k].registration
              began == pollers[k].currentStatus
          IN  /\ began = instances[obj].Status
              /\ last'.op = "checkHealth" /\ last'.cur = began
              /\ last'.probed \in {"UP", "DOWN"}
              /\ IF last'.probed # began
                 THEN /\ instances' = [instances EXCEPT ![obj].Status = last'.probed]
                      /\ Len(last'.calls) = 1
                      /\ last'.calls[1].rpc = "RegisterInstance"
                      /\ last'.calls[1].obj = obj
                      /\ last'.calls[1].status = last'.probed
                 ELSE /\ last'.calls = <<>>
                      /\ instances' = instances
              /\ UNCHANGED <<registeredServices, knownApplications, closed>>]_vars

(* C6 witness: a tick that finds the instance DOWN as the tick before it had
   announced, and makes no call. *)
C6_Witness ==
    /\ last.op = "checkHealth"
    /\ last.cur = "DOWN" /\ last.probed = "DOWN"
    /\ last.calls = <<>>
    /\ instances[last.obj].Status = "DOWN"

(* C7. Refresh of a managed service that is not skipped sends one heartbeat
   with the managed registration as it is now; refused, one RegisterInstance
   with the same instance follows and its result is returned; accepted, no
   other call follows and nil is returned. *)
C7_RefreshHeartbeatThenRegister ==
    (/\ last.op = "Refresh"
     /\ ~(last.svc.Port = SkipPort
          /\ last.svc.Name = (IF env.found THEN env.value ELSE DefaultServiceName))
     /\ NewRegistration.InstanceId \in DOMAIN registeredServices) =>
        LET obj == registeredServices[NewRegistration.InstanceId].registration
            beat == [rpc |-> "SendHeartbeat", obj |-> obj,
                     id |-> NewRegistration.InstanceId, status |-> instances[obj].Status,
                     result |-> "true"]
        IN  /\ Len(last.calls) >= 1
            /\ last.calls[1] \in {[beat EXCEPT !.result = r] : r \in {"true", "false"}}
            /\ last.calls[1].result = "true" => (Len(last.calls) = 1 /\ last.ret = "nil")
            /\ last.calls[1].result = "false" =>
                   /\ Len(last.calls) = 2
                   /\ last.calls[2] = [beat EXCEPT !.rpc = "RegisterInstance",
                                                   !.result = last.ret]
                   /\ last.ret \in RpcResults

(* C7 witness: the heartbeat of an instance that its poller has set DOWN is
   refused and the instance is registered again as DOWN, without error. *)
C7_Witness ==
    /\ last.op = "Refresh" /\ Len(last.calls) = 2
    /\ last.calls[1].result = "false"
    /\ last.calls[2].rpc = "RegisterInstance" /\ last.calls[2].status = "DOWN"
    /\ last.ret = "nil"
    /\ NewRegistration.InstanceId \in DOMAIN registeredServices

(* Deregister of the service of the latest step, which was a Deregister of it
   that was not skipped *)
IsSecondDeregister ==
    /\ last.op = "Deregister" /\ ~last.skipped
    /\ last'.op = "Deregister" /\ last'.svc = last.svc

(* C8. Deregister twice, as claimed: the second call returns no error and fires
   no stop signal; after the first call the managed map has no entry for the
   instanceId. *)
C8_SecondDeregisterNoError ==
    [][IsSecondDeregister =>
          /\ NewRegistration.InstanceId \notin DOMAIN registeredServices
          /\ last'.ret = "nil"
          /\ last'.fired = 0 /\ closed' = closed /\ ~panicked']_vars

(* C8, amended: the second call fires no stop signal, makes one
   UnregisterInstance call and returns what that call returns; after the
   first call and after the second the managed map has no entry for the
   instanceId. *)
C8_SecondDeregisterFiresNothing ==
    [][IsSecondDeregister =>
          /\ NewRegistration.InstanceId \notin DOMAIN registeredServices
          /\ NewRegistration.InstanceId \notin DOMAIN registeredServices'
          /\ last'.fired = 0 /\ closed' = closed /\ ~panicked'
          /\ Len(last'.calls) = 1
          /\ last'.calls[1].rpc = "UnregisterInstance"
          /\ last'.calls[1].id = NewRegistration.InstanceId
          /\ last'.ret = last'.calls[1].result]_vars

(* C8 witness: a Deregister that finds no entry for an instance whose stop
   signal an earlier Deregister has fired. *)
C8_Witness ==
    /\ last.op = "Deregister" /\ ~last.skipped
    /\ last.fired = 0 /\ last.obj = Nil
    /\ \E k \in closed : instances[k].InstanceId = NewRegistration.InstanceId
    /\ NewRegistration.InstanceId \notin DOMAIN registeredServices

(* C9. For a service on port 51234 with the configured reserved name, Register,
   Deregister and Refresh return nil, make no registry call, start no poller
   and leave the managed map, the cache, the instances and the stop signals
   as they were. *)
C9_SkippedServiceUntouched ==
    [][(/\ last'.op \in {"Register", "Deregister", "Refresh"}
        /\ last'.svc.Port = SkipPort
        /\ last'.svc.Name = (IF env.found THEN env.value ELSE DefaultServiceName)) =>
          /\ last'.ret = "nil"
          /\ last'.calls = <<>>
          /\ last'.spawned = Nil /\ last'.fired = 0 /\ last'.probes = 0
          /\ UNCHANGED <<registeredServices, knownApplications, instances, pollers,
                         closed, panicked>>]_vars

(* C9 witness: Register of the service with the reserved name taken from the
   environment is skipped while another instance is managed. *)
C9_Witness ==
    /\ last.op = "Register" /\ last.skipped
    /\ env.found /\ last.svc.Name = env.value
    /\ DOMAIN registeredServices # {}

(* C10. Register of a service without check_http: the cache is not consulted,
   no UnregisterInstance and no probe is made, no poller is started, the
   stored registration has no statusUrl and no stop signal, the computed
   status is UP and it is what RegisterInstance is called with. *)
C10_NoHealthCheckNoReconciliation ==
    (last.op = "Register" /\ ~last.skipped /\ last.svc.Attrs.check_http = "") =>
        /\ ~last.consulted /\ ~last.found
        /\ last.probes = 0
        /\ last.spawned = Nil /\ last.obj \notin DOMAIN pollers
        /\ last.computed = "UP"
        /\ last.calls = <<Call("RegisterInstance", last.obj,
                               [NewRegistration EXCEPT !.Status = "UP"], last.ret)>>
        /\ NewRegistration.InstanceId \in DOMAIN registeredServices
        /\ registeredServices[NewRegistration.InstanceId] =
               [registration |-> last.obj, statusUrl |-> <<>>, stop |-> Nil, ticker |-> Nil]

(* C10 witness: such a Register while the cache holds an instance with its
   instanceId and a ghost of it. *)
C10_Witness ==
    /\ last.op = "Register" /\ ~last.skipped /\ last.svc.Attrs.check_http = ""
    /\ SameIdCached
    /\ \E i \in 1..Len(CachedList) : GhostOf(CachedList[i])

----------------------------------------------------------------------------
(* The interval the claim gives a service: the value of check_interval when
   it is a positive integer, 30 otherwise *)
IntervalAsClaimed(service) ==
    IF ~Atoi(service.Attrs.check_interval).err /\ Atoi(service.Attrs.check_interval).v > 0
    THEN Atoi(service.Attrs.check_interval).v
    ELSE DefaultInterval

(* C11. The tick interval, as claimed: Register of a service with a health check
   computes a positive interval, the value of check_interval when it parses as
   a positive integer and 30 in every other case, and starts the poller with
   it. *)
C11_IntervalAlwaysPositive ==
    RegisteredWithCheck =>
        /\ last.interval > 0
        /\ last.interval = IntervalAsClaimed(last.svc)
        /\ last.ret # "panic"
        /\ last.spawned \in DOMAIN pollers
        /\ pollers[last.spawned].interval = last.interval

StatusValues == {"STARTING", "UP", "DOWN"}

(* C12. Status values, as claimed: the status of every managed instance, and
   the status of the instance that a RegisterInstance or SendHeartbeat call
   carries, is STARTING, UP or DOWN. *)
C12_StatusIsOneOfThree ==
    /\ \A id \in DOMAIN registeredServices :
           instances[registeredServices[id].registration].Status \in StatusValues
    /\ \A i \in CallsOf("RegisterInstance") \cup CallsOf("SendHeartbeat") :
           last.calls[i].obj # Nil => last.calls[i].status \in StatusValues

(* C13. The status probe makes one GET, and a second one exactly when the first
   fails with a transport error; it returns to its caller; it returns UP
   exactly when the last GET it made answered 200 with a body that could be
   read, and DOWN otherwise, so DOWN when both GETs fail. *)
C13_ProbeClassifies ==
    last.probes = 1 =>
        /\ last.gets \in {1, 2}
        /\ last.gets = 2 <=> last.run[1] = "error"
        /\ last.probed \in {"UP", "DOWN"}
        /\ last.probed = "UP" <=> last.run[last.gets] = "200"
        /\ (last.run[1] = "error" /\ last.run[2] = "error") => last.probed = "DOWN"
        /\ ~panicked /\ last.ret # "panic"

(* C13 witness: a probe whose first GET fails and whose second GET answers 200
   with a body that cannot be read. *)
C13_Witness ==
    /\ last.probes = 1 /\ last.gets = 2
    /\ last.run = <<"error", "readfail200">>
    /\ last.probed = "DOWN"

(* C14. Register of a service that is not skipped makes one RegisterInstance
   call, for the new instance, as its last call, and returns the result of
   that call; the new instance is in the managed map; whatever
   UnregisterInstance of a ghost returned. *)
C14_GhostCleanupNeverSurfaces ==
    (last.op = "Register" /\ ~last.skipped) =>
        /\ Len(last.calls) >= 1
        /\ CallsOf("RegisterInstance") = {Len(last.calls)}
        /\ last.calls[Len(last.calls)].id = NewRegistration.InstanceId
        /\ last.calls[Len(last.calls)].obj = last.obj
        /\ last.ret = last.calls[Len(last.calls)].result
        /\ NewRegistration.InstanceId \in DOMAIN registeredServices
        /\ registeredServices[NewRegistration.InstanceId].registration = last.obj

(* C14 witness: UnregisterInstance of a ghost fails, RegisterInstance succeeds
   and Register returns nil. *)
C14_Witness ==
    /\ last.op = "Register" /\ Len(last.calls) = 2
    /\ last.calls[1].rpc = "UnregisterInstance" /\ last.calls[1].result = "err"
    /\ last.calls[2].result = "nil"
    /\ last.ret = "nil"
    /\ NewRegistration.InstanceId \in DOMAIN registeredServices

(* A poller that has not returned and has not been told to stop *)
Running(k) == pollers[k].pc # "done" /\ pollers[k].stop \notin closed

PollerId(k) == instances[pollers[k].registration].InstanceId

(* C15. Pollers, as claimed: each instanceId has at most one running poller,
   and the managed map holds, for the instanceId of a running poller, an
   entry with a statusUrl whose stop signal is the one the poller listens
   on. *)
C15_OnePollerPerInstance ==
    \A k \in DOMAIN pollers :
        Running(k) =>
            /\ \A j \in DOMAIN pollers : (Running(j) /\ PollerId(j) = PollerId(k)) => j = k
            /\ PollerId(k) \in DOMAIN registeredServices
            /\ registeredServices[PollerId(k)].statusUrl # <<>>
            /\ registeredServices[PollerId(k)].stop = pollers[k].stop

(* A step in which poller k returns *)
IsPollerStop(k) ==
    /\ k \in DOMAIN pollers
    /\ pollers[k].pc # "done"
    /\ pollers'[k].pc = "done"

(* C16. Once the stop signal of a poller has been fired, the poller eventually
   returns with its ticker stopped; the step in which it returns makes no
   registry call and changes neither the instances nor the managed map. *)
C16_StoppedPollerTerminates ==
    /\ \A k \in 1..MaxGhostRegs :
           (k \in DOMAIN pollers /\ pollers[k].stop \in closed)
               ~> (k \in DOMAIN pollers /\ pollers[k].pc = "done" /\ pollers[k].ticker = Nil)
    /\ [][\A k \in DOMAIN pollers : IsPollerStop(k) =>
             /\ pollers[k].stop \in closed
             /\ last'.calls = <<>>
             /\ UNCHANGED <<instances, registeredServices, closed>>]_vars

(* C16 witness: a poller that was between two ticks when Deregister fired its
   stop signal has returned, after the instance was registered again. *)
C16_Witness ==
    /\ 1 \in DOMAIN pollers /\ pollers[1].pc = "done" /\ pollers[1].ticker = Nil
    /\ pollers[1].stop \in closed
    /\ 2 \in DOMAIN pollers /\ pollers[2].pc # "done"
    /\ PollerId(2) = PollerId(1)

(* C17. Serialized access to the cache, as claimed: no handler reads the
   known-applications cache (Register's reconciliation) or writes it (Ping)
   while a clearing goroutine is inside its loop over it. Neither step
   changes the position of a clearing goroutine, so the goroutines inside
   their loop after the step were inside it during the step. *)
C17_CacheAccessSerialized ==
    ((last.op = "Register" /\ last.consulted) \/ (last.op = "Ping" /\ last.ret = "nil")) =>
        \A i \in 1..Len(timers) : timers[i] # Clearing

(* C18. No announcement after Deregister, as claimed: a tick of a poller whose
   stop signal has been fired, whether it began before or after, makes no
   RegisterInstance call. *)
C18_NoAnnouncementAfterDeregister ==
    [][\A k \in DOMAIN pollers :
          (IsTickFinish(k) /\ pollers[k].stop \in closed) =>
              CallsOf("RegisterInstance") = {} /\ last'.calls = <<>>]_vars

(* C19. The registry knows the recorded status, as claimed: for a managed
   instance with a poller that is between two ticks, and for which the
   registry has accepted a registration, the status it accepted last is the
   recorded status. *)
C19_RegistryKnowsRecordedStatus ==
    \A k \in DOMAIN pollers :
        (/\ pollers[k].pc = "select"
         /\ PollerId(k) \in DOMAIN registeredServices
         /\ registeredServices[PollerId(k)].registration = pollers[k].registration
         /\ PollerId(k) \in DOMAIN accepted.status) =>
            accepted.status[PollerId(k)] = instances[pollers[k].registration].Status

(* C20. Refresh carries the managed instance, as claimed: every call Refresh
   makes for a service that is not skipped carries an instance, the one the
   managed map holds for the service's instanceId. *)
C20_RefreshCarriesManagedInstance ==
    (last.op = "Refresh" /\ ~last.skipped) =>
        \A i \in 1..Len(last.calls) :
            /\ last.calls[i].obj # Nil
            /\ NewRegistration.InstanceId \in DOMAIN registeredServices
            /\ last.calls[i].obj = registeredServices[NewRegistration.InstanceId].registration

====
